---------------------------- MODULE Spec2Model ----------------------------
(***************************************************************************)
(* A state-machine model of SceneManager (Source/SceneManager.cpp): the    *)
(* texture registry, the material registry, the calls that hand values to  *)
(* the shader manager, and the routines that build the scene call by call. *)
(*                                                                         *)
(* Conventions                                                             *)
(*   - uniforms holds, per uniform name, the value last handed to the      *)
(*     shader manager's setter for that name (GLSL uniforms start at 0).   *)
(*   - floats that occur as literals are scaled by 10 and kept as integers *)
(*     (0.7 is 7); material and light literals are scaled by 100 (0.01 is  *)
(*     1); the lengths of the scene builders are in thousandths (0.65 is   *)
(*     650), and so are sines and cosines.                                 *)
(*   - last records the most recent call: its name, arguments and result.  *)
(*   - loaded is a history variable: the loads that returned true, in      *)
(*     order; the program does not read it.                                *)
(*   - ub records the first undefined behaviour the run executed; crashed  *)
(*     says the process died from it.                                      *)
(*   - routine is the position inside PrepareScene, RenderScene or a       *)
(*     bottle builder run on its own; pending, drawn and built are history *)
(*     variables of the calls made for a draw, the draws issued and the    *)
(*     builder runs finished; the program does not read them.              *)
(***************************************************************************)
EXTENDS Integers, Sequences, FiniteSets, TLC

VARIABLES
    m_pShaderManager,   \* "NULL" or "shader": the pointer given to the constructor
    m_loadedTextures,   \* int: number of registered textures
    m_textureIDs,       \* the array m_textureIDs[0 .. MaxTextureSlots-1] of [ID, tag]
    pastEnd,            \* the memory right after m_textureIDs, read as one entry
    loaded,             \* history: the [ID, tag] of every load that returned true
    m_objectMaterials,  \* std::vector<OBJECT_MATERIAL>
    glTextures,         \* GL texture objects: handle h is glTextures[h], its image format
    activeTexture,      \* GL: the active texture unit
    texUnit,            \* GL: the GL_TEXTURE_2D binding of every unit (0 is no texture)
    uniforms,           \* values handed to the shader manager's setters
    ub,                 \* "none", "out_of_bounds" or "null_deref"
    crashed,            \* the process died
    last,               \* the most recent call
    routine,            \* the scene routine in progress: [name, arg, pc], pc the next call
    pending,            \* the shader-state calls made since the previous draw
    drawn,              \* the draws of the routine, each with the state it was issued in
    built               \* history: the builder calls that have returned, with their draws

vars == <<m_pShaderManager, m_loadedTextures, m_textureIDs, pastEnd, loaded,
          m_objectMaterials, glTextures, activeTexture, texUnit, uniforms,
          ub, crashed, last, routine, pending, drawn, built>>

texVars == <<m_loadedTextures, m_textureIDs, pastEnd, loaded>>
glVars == <<glTextures, activeTexture, texUnit>>
sceneVars == <<routine, pending, drawn, built>>

-----------------------------------------------------------------------------
(* Program constants *)

\* "There are up to 16 slots": the capacity of m_textureIDs.
MaxTextureSlots == 16

\* m_loadedTextures before the first load.
InitialLoadedTextures == 0

\* The names of the shader uniforms (the globals of the anonymous namespace).
g_ModelName == "model"
g_ColorValueName == "objectColor"
g_TextureValueName == "objectTexture"
g_UseTextureName == "bUseTexture"
g_UseLightingName == "bUseLighting"

-----------------------------------------------------------------------------
(* Bounds of the model *)

\* Decoded images handed to CreateGLTexture in the bounded specifications.
MaxLoads == 3

\* Entries pushed onto m_objectMaterials one at a time.
MaxMaterials == 2

\* The same two bounds in Spec, where the shader state multiplies the states.
MaxDrawLoads == 2
MaxDrawMaterials == 1

-----------------------------------------------------------------------------
(* Input sets *)

\* Texture tags: the nine of LoadSceneTextures, then enough others to fill
\* the array and go one past it.
TagNames == <<"wood", "sauce1", "sauce2", "sauce3", "sauce4", "lid", "wall",
              "shelf", "redplastic", "t9", "t10", "t11", "t12", "t13", "t14",
              "t15", "t16", "t17", "t18">>

\* The tags the bounded specifications load and look up.
LoadTags == {"wood", "lid"}
QueryTags == {"wood", "lid", "wall"}

\* What stbi_load can return: no image, or an image with 1..4 channels.
NoImage == [decoded |-> FALSE, colorChannels |-> 0]
Images == {NoImage} \cup {[decoded |-> TRUE, colorChannels |-> c] : c \in 1..4}

\* An array element no load has written, and what a read outside the
\* array may find.
BlankEntry == [ID |-> 0, tag |-> ""]
GarbageEntries == {BlankEntry, [ID |-> 99, tag |-> "wood"]}


-----------------------------------------------------------------------------
(* Texture registry *)

\* m_textureIDs[index] as the machine reads it: indices from MaxTextureSlots
\* on are outside the array.
TextureAt(index) ==
    IF index < MaxTextureSlots THEN m_textureIDs[index] ELSE pastEnd

\* glGenTextures(1, &textureID): GL hands out a name not in use; nothing is
\* ever deleted, so that is the next one.
glGenTextures == Len(glTextures) + 1

\* A load that takes every channel count for one it can upload.
ChannelsSupportedAny(colorChannels) == TRUE

\* The if / else if / else on colorChannels: 3 and 4 are uploaded, anything
\* else is "Not implemented".
ChannelsSupported(colorChannels) == colorChannels \in {3, 4}

\* The internal format glTexImage2D is called with.
InternalFormat(colorChannels) ==
    IF colorChannels = 3 THEN "GL_RGB8" ELSE "GL_RGBA8"

\* Lines 113-115: the entry is stored at index m_loadedTextures with no check
\* against the capacity of the array. A store past the array is undefined:
\* the process dies, or it goes on with the counter incremented and the
\* memory past the array holding the entry or something else.
RegisterTexture(textureID, tag) ==
    IF m_loadedTextures < MaxTextureSlots
    THEN /\ m_textureIDs' = [m_textureIDs EXCEPT
                                ![m_loadedTextures] = [ID |-> textureID, tag |-> tag]]
         /\ m_loadedTextures' = m_loadedTextures + 1
         /\ UNCHANGED <<pastEnd, ub, crashed>>
    ELSE /\ ub' = IF ub = "none" THEN "out_of_bounds" ELSE ub
         /\ \/ /\ crashed' = TRUE
               /\ UNCHANGED <<m_textureIDs, m_loadedTextures, pastEnd>>
            \/ /\ crashed' = FALSE
               /\ pastEnd' \in {[ID |-> textureID, tag |-> tag]} \cup GarbageEntries
               /\ m_loadedTextures' = m_loadedTextures + 1
               /\ UNCHANGED m_textureIDs

CreateGLTexture(image, tag) ==
    /\ ~crashed
    /\ IF image.decoded
       THEN LET textureID == glGenTextures IN
            IF ChannelsSupported(image.colorChannels)
            THEN \* upload, mipmaps, unbind, register, return true
                 /\ glTextures' = Append(glTextures, InternalFormat(image.colorChannels))
                 /\ texUnit' = [texUnit EXCEPT ![activeTexture] = 0]
                 /\ RegisterTexture(textureID, tag)
                 /\ loaded' = IF crashed' THEN loaded
                              ELSE Append(loaded, [ID |-> textureID, tag |-> tag])
                 /\ last' = IF crashed' THEN last
                            ELSE [op |-> "CreateGLTexture",
                                  arg |-> [image |-> image, tag |-> tag],
                                  ret |-> TRUE]
                 /\ UNCHANGED <<m_pShaderManager, m_objectMaterials, activeTexture, uniforms>>
            ELSE \* "Not implemented to handle image with N channels": return
                 \* false with the new texture object still bound
                 /\ glTextures' = Append(glTextures, "none")
                 /\ texUnit' = [texUnit EXCEPT ![activeTexture] = textureID]
                 /\ last' = [op |-> "CreateGLTexture",
                             arg |-> [image |-> image, tag |-> tag],
                             ret |-> FALSE]
                 /\ UNCHANGED <<m_pShaderManager, texVars, m_objectMaterials,
                                activeTexture, uniforms, ub, crashed>>
       ELSE \* "Could not load image"
            /\ last' = [op |-> "CreateGLTexture",
                        arg |-> [image |-> image, tag |-> tag],
                        ret |-> FALSE]
            /\ UNCHANGED <<m_pShaderManager, texVars, m_objectMaterials, glVars,
                           uniforms, ub, crashed>>

\* The handles BindGLTextures binds, in order: element i+1 goes to unit i.
BoundHandles == [i \in 1..m_loadedTextures |-> TextureAt(i - 1).ID]

BindGLTextures ==
    /\ ~crashed
    /\ texUnit' = [u \in DOMAIN texUnit |->
                      IF u < m_loadedTextures THEN TextureAt(u).ID ELSE texUnit[u]]
    /\ activeTexture' = IF m_loadedTextures > 0 THEN m_loadedTextures - 1
                        ELSE activeTexture
    /\ last' = [op |-> "BindGLTextures", arg |-> "", ret |-> BoundHandles]
    /\ UNCHANGED <<m_pShaderManager, texVars, m_objectMaterials, glTextures,
                   uniforms, ub, crashed>>

\* Lines 150-153: one glGenTextures per registered entry, its result stored
\* over the entry's ID. Each iteration is handed a new texture name, with no
\* image; no texture is deleted. With more entries than the array holds the
\* stores run past the array, which is undefined as in RegisterTexture.
DestroyGLTextures ==
    /\ ~crashed
    /\ LET before == Len(glTextures)
           regenerated(e, i) == [ID |-> before + i + 1, tag |-> e.tag]
       IN IF m_loadedTextures <= MaxTextureSlots
          THEN /\ glTextures' = glTextures \o [i \in 1..m_loadedTextures |-> "none"]
               /\ m_textureIDs' = [i \in DOMAIN m_textureIDs |->
                                      IF i < m_loadedTextures
                                      THEN regenerated(m_textureIDs[i], i)
                                      ELSE m_textureIDs[i]]
               /\ UNCHANGED <<pastEnd, ub, crashed>>
          ELSE /\ ub' = IF ub = "none" THEN "out_of_bounds" ELSE ub
               /\ \/ /\ crashed' = TRUE
                     /\ UNCHANGED <<glTextures, m_textureIDs, pastEnd>>
                  \/ /\ crashed' = FALSE
                     /\ glTextures' = glTextures \o [i \in 1..m_loadedTextures |-> "none"]
                     /\ m_textureIDs' = [i \in DOMAIN m_textureIDs |->
                                            regenerated(m_textureIDs[i], i)]
                     /\ pastEnd' \in {regenerated(pastEnd, MaxTextureSlots)}
                                     \cup GarbageEntries
    /\ last' = IF crashed' THEN last
               ELSE [op |-> "DestroyGLTextures", arg |-> Len(glTextures), ret |-> ""]
    /\ UNCHANGED <<m_pShaderManager, m_loadedTextures, loaded, m_objectMaterials,
                   activeTexture, texUnit, uniforms>>
RECURSIVE FindTextureIDLoop(_, _)
FindTextureIDLoop(tag, index) ==
    IF index < m_loadedTextures
    THEN IF TextureAt(index).tag = tag
         THEN TextureAt(index).ID
         ELSE FindTextureIDLoop(tag, index + 1)
    ELSE -1

FindTextureID(tag) == FindTextureIDLoop(tag, 0)

\* A scan that keeps going after a match and so returns the last one.
RECURSIVE FindTextureSlotLast(_, _)
FindTextureSlotLast(tag, index) ==
    IF index < m_loadedTextures
    THEN LET later == FindTextureSlotLast(tag, index + 1)
         IN IF later # -1 THEN later
            ELSE IF TextureAt(index).tag = tag THEN index ELSE -1
    ELSE -1

RECURSIVE FindTextureSlotLoop(_, _)
FindTextureSlotLoop(tag, index) ==
    IF index < m_loadedTextures
    THEN IF TextureAt(index).tag = tag
         THEN index
         ELSE FindTextureSlotLoop(tag, index + 1)
    ELSE -1

\* A lookup whose result starts at 0 instead of -1.
FindTextureSlotFromZero(tag) ==
    IF FindTextureSlotLoop(tag, 0) = -1 THEN 0 ELSE FindTextureSlotLoop(tag, 0)

FindTextureSlot(tag) == FindTextureSlotLoop(tag, 0)

\* A call of FindTextureID from outside: nothing but the result.
CallFindTextureID(tag) ==
    /\ ~crashed
    /\ last' = [op |-> "FindTextureID", arg |-> tag, ret |-> FindTextureID(tag)]
    /\ UNCHANGED <<m_pShaderManager, texVars, m_objectMaterials, glVars,
                   uniforms, ub, crashed>>

CallFindTextureSlot(tag) ==
    /\ ~crashed
    /\ last' = [op |-> "FindTextureSlot", arg |-> tag, ret |-> FindTextureSlot(tag)]
    /\ UNCHANGED <<m_pShaderManager, texVars, m_objectMaterials, glVars,
                   uniforms, ub, crashed>>

-----------------------------------------------------------------------------
(* Material registry *)

\* An OBJECT_MATERIAL as the code uses it.
Material(tag, diffuseColor, specularColor, shininess) ==
    [tag |-> tag, diffuseColor |-> diffuseColor,
     specularColor |-> specularColor, shininess |-> shininess]

\* The five literals of DefineObjectMaterials (scaled by 100).
glassMaterial == Material("glass", <<20, 20, 20>>, <<100, 100, 100>>, 9500)
plasticMaterial == Material("plastic", <<10, 10, 10>>, <<10, 10, 10>>, 1)
woodMaterial == Material("wood", <<30, 30, 30>>, <<70, 70, 70>>, 8000)
wallMaterial == Material("wall", <<30, 30, 30>>, <<60, 60, 60>>, 7500)
shelfMaterial == Material("shelf", <<60, 60, 60>>, <<20, 20, 20>>, 20)

DefineObjectMaterials ==
    /\ ~crashed
    /\ m_objectMaterials' = m_objectMaterials \o
           <<glassMaterial, plasticMaterial, woodMaterial, wallMaterial, shelfMaterial>>
    /\ last' = [op |-> "DefineObjectMaterials", arg |-> "", ret |-> ""]
    /\ UNCHANGED <<m_pShaderManager, texVars, glVars, uniforms, ub, crashed>>

\* One definition of DefineObjectMaterials taken alone: fill in a material,
\* push it onto m_objectMaterials.
DefineMaterial(material) ==
    /\ ~crashed
    /\ m_objectMaterials' = Append(m_objectMaterials, material)
    /\ last' = [op |-> "DefineMaterial", arg |-> material, ret |-> ""]
    /\ UNCHANGED <<m_pShaderManager, texVars, glVars, uniforms, ub, crashed>>

\* The materials the bounded specifications define one at a time: two tags,
\* two different materials under "glass".
MaterialInputs ==
    {glassMaterial, plasticMaterial,
     Material("glass", <<50, 50, 50>>, <<40, 40, 40>>, 300)}
MaterialTags == {"glass", "plastic", "wood"}

\* What a local "OBJECT_MATERIAL material;" holds before anything is
\* assigned to it: the floats are not initialized, the tag is empty.
UninitMaterials ==
    {Material("", <<0, 0, 0>>, <<0, 0, 0>>, 0),
     Material("", <<-7, 13, 99>>, <<5, -1, 42>>, -3)}

\* A loop that does not stop at a match and so copies the last one.
RECURSIVE FindMaterialLoopLast(_, _, _)
FindMaterialLoopLast(tag, material, index) ==
    IF index < Len(m_objectMaterials)
    THEN LET later == FindMaterialLoopLast(tag, material, index + 1)
         IN IF later.bFound THEN later
            ELSE IF m_objectMaterials[index + 1].tag = tag
                 THEN [bFound |-> TRUE,
                       material |->
                         [material EXCEPT
                            !.diffuseColor = m_objectMaterials[index + 1].diffuseColor,
                            !.specularColor = m_objectMaterials[index + 1].specularColor,
                            !.shininess = m_objectMaterials[index + 1].shininess]]
                 ELSE later
    ELSE [bFound |-> FALSE, material |-> material]

\* The while loop of FindMaterial: bFound and the caller's material when
\* the loop ends.
RECURSIVE FindMaterialLoop(_, _, _)
FindMaterialLoop(tag, material, index) ==
    IF index < Len(m_objectMaterials)
    THEN IF m_objectMaterials[index + 1].tag = tag
         THEN [bFound |-> TRUE,
               material |->
                 [material EXCEPT
                    !.diffuseColor = m_objectMaterials[index + 1].diffuseColor,
                    !.specularColor = m_objectMaterials[index + 1].specularColor,
                    !.shininess = m_objectMaterials[index + 1].shininess]]
         ELSE FindMaterialLoop(tag, material, index + 1)
    ELSE [bFound |-> FALSE, material |-> material]

\* A FindMaterial that clears the caller's material when no entry matches.
FindMaterialClearing(tag, material) ==
    IF Len(m_objectMaterials) = 0
    THEN [ret |-> FALSE, material |-> material]
    ELSE [ret |-> TRUE,
          material |-> IF FindMaterialLoop(tag, material, 0).bFound
                       THEN FindMaterialLoop(tag, material, 0).material
                       ELSE Material("", <<0, 0, 0>>, <<0, 0, 0>>, 0)]
\* bool FindMaterial(tag, material&): the result and the caller's material
\* after the call. The value returned after the loop is true, whatever
\* bFound is.
FindMaterial(tag, material) ==
    IF Len(m_objectMaterials) = 0
    THEN [ret |-> FALSE, material |-> material]
    ELSE [ret |-> TRUE, material |-> FindMaterialLoop(tag, material, 0).material]

CallFindMaterial(tag, material) ==
    /\ ~crashed
    /\ last' = [op |-> "FindMaterial",
                arg |-> [tag |-> tag, material |-> material],
                ret |-> FindMaterial(tag, material)]
    /\ UNCHANGED <<m_pShaderManager, texVars, m_objectMaterials, glVars,
                   uniforms, ub, crashed>>

-----------------------------------------------------------------------------
(* Transform composition: 4x4 integer matrices, rows of the mathematical     *)
(* matrix acting on column vectors; rotations exact at multiples of 90       *)
(* degrees, in fixed point elsewhere.                                        *)

\* One cell and one row of the product A * B.
MatCell(A, B, r, c) ==
    A[r][1] * B[1][c] + A[r][2] * B[2][c] + A[r][3] * B[3][c] + A[r][4] * B[4][c]

MatRow(A, B, r) ==
    <<MatCell(A, B, r, 1), MatCell(A, B, r, 2), MatCell(A, B, r, 3), MatCell(A, B, r, 4)>>

MatMul(A, B) == <<MatRow(A, B, 1), MatRow(A, B, 2), MatRow(A, B, 3), MatRow(A, B, 4)>>

ZeroMat4 == <<<<0, 0, 0, 0>>, <<0, 0, 0, 0>>, <<0, 0, 0, 0>>, <<0, 0, 0, 0>>>>

\* Sines, cosines and the cells of a rotation matrix are fixed-point numbers
\* with this denominator; every other matrix cell is in the unit of the
\* lengths handed to SetTransformations.
TrigScale == 1000

\* cos and sin of glm::radians(degrees), times TrigScale: exact at the
\* multiples of 90, rounded at the two other angles the scene uses
\* (-67 and 13 degrees, the ring of CreateBottle2).
CosDeg(d) == CASE d % 360 = 0 -> TrigScale [] d % 360 = 90 -> 0
               [] d % 360 = 180 -> -TrigScale [] d % 360 = 270 -> 0
               [] d % 360 = 293 -> 391 [] d % 360 = 13 -> 974
SinDeg(d) == CASE d % 360 = 0 -> 0 [] d % 360 = 90 -> TrigScale
               [] d % 360 = 180 -> 0 [] d % 360 = 270 -> -TrigScale
               [] d % 360 = 293 -> -921 [] d % 360 = 13 -> 225

\* glm::scale(v)
GlmScale(v) ==
    <<<<v[1], 0, 0, 0>>,
      <<0, v[2], 0, 0>>,
      <<0, 0, v[3], 0>>,
      <<0, 0, 0, 1>>>>

\* glm::translate(v)
GlmTranslate(v) ==
    <<<<1, 0, 0, v[1]>>,
      <<0, 1, 0, v[2]>>,
      <<0, 0, 1, v[3]>>,
      <<0, 0, 0, 1>>>>

\* A rotation about X that turns the other way (clockwise seen from +X).
GlmRotateXClockwise(d) ==
    <<<<TrigScale, 0, 0, 0>>,
      <<0, CosDeg(d), SinDeg(d), 0>>,
      <<0, -SinDeg(d), CosDeg(d), 0>>,
      <<0, 0, 0, TrigScale>>>>

\* glm::rotate(glm::radians(d), axis) for the three unit axes, times TrigScale
GlmRotateX(d) ==
    <<<<TrigScale, 0, 0, 0>>,
      <<0, CosDeg(d), -SinDeg(d), 0>>,
      <<0, SinDeg(d), CosDeg(d), 0>>,
      <<0, 0, 0, TrigScale>>>>
GlmRotateY(d) ==
    <<<<CosDeg(d), 0, SinDeg(d), 0>>,
      <<0, TrigScale, 0, 0>>,
      <<-SinDeg(d), 0, CosDeg(d), 0>>,
      <<0, 0, 0, TrigScale>>>>
GlmRotateZ(d) ==
    <<<<CosDeg(d), -SinDeg(d), 0, 0>>,
      <<SinDeg(d), CosDeg(d), 0, 0>>,
      <<0, 0, TrigScale, 0>>,
      <<0, 0, 0, TrigScale>>>>

\* One row of a fixed-point matrix brought back to the unit of lengths.
FixRow(row) ==
    <<row[1] \div TrigScale, row[2] \div TrigScale,
      row[3] \div TrigScale, row[4] \div TrigScale>>

\* rotation * A, where rotation is one of the fixed-point matrices above
RotateMul(rotation, A) ==
    <<FixRow(MatRow(rotation, A, 1)), FixRow(MatRow(rotation, A, 2)),
      FixRow(MatRow(rotation, A, 3)), FixRow(MatRow(rotation, A, 4))>>

\* The same five matrices with the scale applied after the rotations.
ModelViewScaleLast(scaleXYZ, XrotationDegrees, YrotationDegrees, ZrotationDegrees, positionXYZ) ==
    MatMul(GlmTranslate(positionXYZ),
      MatMul(GlmScale(scaleXYZ),
        RotateMul(GlmRotateZ(ZrotationDegrees),
          RotateMul(GlmRotateY(YrotationDegrees),
            RotateMul(GlmRotateX(XrotationDegrees), GlmScale(<<1, 1, 1>>))))))
\* modelView = translation * rotationZ * rotationY * rotationX * scale
ModelView(scaleXYZ, XrotationDegrees, YrotationDegrees, ZrotationDegrees, positionXYZ) ==
    MatMul(GlmTranslate(positionXYZ),
      RotateMul(GlmRotateZ(ZrotationDegrees),
        RotateMul(GlmRotateY(YrotationDegrees),
          RotateMul(GlmRotateX(XrotationDegrees), GlmScale(scaleXYZ)))))

-----------------------------------------------------------------------------
(* Shader state *)

UniformsAtStart ==
    (g_ModelName :> ZeroMat4) @@ (g_UseTextureName :> 0)
    @@ (g_ColorValueName :> <<0, 0, 0, 0>>) @@ (g_TextureValueName :> 0)
    @@ ("UVscale" :> <<0, 0>>)
    @@ ("material.diffuseColor" :> <<0, 0, 0>>)
    @@ ("material.specularColor" :> <<0, 0, 0>>)
    @@ ("material.shininess" :> 0)

\* The three uniforms SetShaderMaterial writes.
MaterialUniforms(u) ==
    <<u["material.diffuseColor"], u["material.specularColor"], u["material.shininess"]>>

SetTransformations(scaleXYZ, XrotationDegrees, YrotationDegrees, ZrotationDegrees, positionXYZ) ==
    /\ ~crashed
    /\ LET modelView == ModelView(scaleXYZ, XrotationDegrees, YrotationDegrees,
                                  ZrotationDegrees, positionXYZ)
       IN uniforms' = IF m_pShaderManager # "NULL"
                      THEN [uniforms EXCEPT ![g_ModelName] = modelView]
                      ELSE uniforms
    /\ last' = [op |-> "SetTransformations",
                arg |-> <<scaleXYZ, XrotationDegrees, YrotationDegrees,
                          ZrotationDegrees, positionXYZ>>,
                ret |-> ""]
    /\ UNCHANGED <<m_pShaderManager, texVars, m_objectMaterials, glVars, ub, crashed>>

\* A SetShaderColor that writes the color and leaves bUseTexture alone.
SetShaderColorOnly(redColorValue, greenColorValue, blueColorValue, alphaValue) ==
    /\ ~crashed
    /\ LET currentColor == <<redColorValue, greenColorValue, blueColorValue, alphaValue>>
       IN uniforms' = IF m_pShaderManager # "NULL"
                      THEN [uniforms EXCEPT ![g_ColorValueName] = currentColor]
                      ELSE uniforms
    /\ last' = [op |-> "SetShaderColor",
                arg |-> <<redColorValue, greenColorValue, blueColorValue, alphaValue>>,
                ret |-> ""]
    /\ UNCHANGED <<m_pShaderManager, texVars, m_objectMaterials, glVars, ub, crashed>>

SetShaderColor(redColorValue, greenColorValue, blueColorValue, alphaValue) ==
    /\ ~crashed
    /\ LET currentColor == <<redColorValue, greenColorValue, blueColorValue, alphaValue>>
       IN uniforms' = IF m_pShaderManager # "NULL"
                      THEN [uniforms EXCEPT ![g_UseTextureName] = 0,
                                            ![g_ColorValueName] = currentColor]
                      ELSE uniforms
    /\ last' = [op |-> "SetShaderColor",
                arg |-> <<redColorValue, greenColorValue, blueColorValue, alphaValue>>,
                ret |-> ""]
    /\ UNCHANGED <<m_pShaderManager, texVars, m_objectMaterials, glVars, ub, crashed>>

SetShaderTexture(textureTag) ==
    /\ ~crashed
    /\ uniforms' = IF m_pShaderManager # "NULL"
                   THEN LET textureID == FindTextureSlot(textureTag)
                        IN [uniforms EXCEPT ![g_UseTextureName] = 1,
                                            ![g_TextureValueName] = textureID]
                   ELSE uniforms
    /\ last' = [op |-> "SetShaderTexture", arg |-> textureTag, ret |-> ""]
    /\ UNCHANGED <<m_pShaderManager, texVars, m_objectMaterials, glVars, ub, crashed>>

SetTextureUVScale(u, v) ==
    /\ ~crashed
    /\ uniforms' = IF m_pShaderManager # "NULL"
                   THEN [uniforms EXCEPT !["UVscale"] = <<u, v>>]
                   ELSE uniforms
    /\ last' = [op |-> "SetTextureUVScale", arg |-> <<u, v>>, ret |-> ""]
    /\ UNCHANGED <<m_pShaderManager, texVars, m_objectMaterials, glVars, ub, crashed>>

\* The three setter calls of SetShaderMaterial. m_pShaderManager is used
\* with no test against NULL: through a null pointer the calls are
\* undefined, and the process dies or goes on with nothing written.
WriteMaterial(material) ==
    IF m_pShaderManager # "NULL"
    THEN /\ uniforms' = [uniforms EXCEPT
                            !["material.diffuseColor"] = material.diffuseColor,
                            !["material.specularColor"] = material.specularColor,
                            !["material.shininess"] = material.shininess]
         /\ UNCHANGED <<ub, crashed>>
    ELSE /\ ub' = IF ub = "none" THEN "null_deref" ELSE ub
         /\ crashed' \in BOOLEAN
         /\ UNCHANGED uniforms

SetShaderMaterial(materialTag) ==
    /\ ~crashed
    /\ IF Len(m_objectMaterials) > 0
       THEN \E material \in UninitMaterials :
                LET found == FindMaterial(materialTag, material)
                IN IF found.ret = TRUE
                   THEN WriteMaterial(found.material)
                   ELSE UNCHANGED <<uniforms, ub, crashed>>
       ELSE UNCHANGED <<uniforms, ub, crashed>>
    /\ last' = IF crashed' THEN last
               ELSE [op |-> "SetShaderMaterial", arg |-> materialTag, ret |-> ""]
    /\ UNCHANGED <<m_pShaderManager, texVars, m_objectMaterials, glVars>>

-----------------------------------------------------------------------------
(* Specifications *)

\* No scene routine is running; nothing was called since the previous draw.
NoRoutine == [name |-> "", arg |-> <<>>, pc |-> 0]
NothingPending == [transforms |-> <<>>, uvscales |-> <<>>, shading |-> 0, materials |-> 0]

\* The state the constructor leaves: the pointer it was given, nothing loaded.
Init ==
    /\ m_pShaderManager \in {"NULL", "shader"}
    /\ m_loadedTextures = InitialLoadedTextures
    /\ m_textureIDs = [i \in 0..(MaxTextureSlots - 1) |-> BlankEntry]
    /\ pastEnd = BlankEntry
    /\ loaded = <<>>
    /\ m_objectMaterials = <<>>
    /\ glTextures = <<>>
    /\ activeTexture = 0
    /\ texUnit = [u \in 0..MaxTextureSlots |-> 0]
    /\ uniforms = UniformsAtStart
    /\ ub = "none"
    /\ crashed = FALSE
    /\ last = [op |-> "SceneManager", arg |-> "", ret |-> ""]
    /\ routine = NoRoutine
    /\ pending = NothingPending
    /\ drawn = <<>>
    /\ built = <<>>

\* Inputs of the shader calls.
Colors == {<<7, 7, 8, 3>>, <<10, 0, 0, 10>>}
UVScales == {<<50, 50>>, <<1, 1>>}
Transforms == {<<<<1, 1, 1>>, 90, 0, 0, <<0, 0, 0>>>>,
               <<<<2, 3, 4>>, 0, 0, 90, <<1, 2, 3>>>>}

RGBImage == [decoded |-> TRUE, colorChannels |-> 3]

\* Spec: the calls that set the shader state for a draw, over registries of
\* a few entries.
LoadRGBTexture ==
    /\ \E tag \in LoadTags :
           /\ Len(glTextures) < MaxDrawLoads
           /\ CreateGLTexture(RGBImage, tag)
    /\ UNCHANGED sceneVars

AddDrawMaterial ==
    /\ \E material \in MaterialInputs :
           /\ Len(m_objectMaterials) < MaxDrawMaterials
           /\ DefineMaterial(material)
    /\ UNCHANGED sceneVars

Transform ==
    /\ \E t \in Transforms : SetTransformations(t[1], t[2], t[3], t[4], t[5])
    /\ UNCHANGED sceneVars

Color ==
    /\ \E c \in Colors : SetShaderColor(c[1], c[2], c[3], c[4])
    /\ UNCHANGED sceneVars

Texture ==
    /\ \E tag \in QueryTags : SetShaderTexture(tag)
    /\ UNCHANGED sceneVars

UVScale ==
    /\ \E s \in UVScales : SetTextureUVScale(s[1], s[2])
    /\ UNCHANGED sceneVars

ShaderMaterial ==
    /\ \E tag \in MaterialTags : SetShaderMaterial(tag)
    /\ UNCHANGED sceneVars

Next ==
    \/ LoadRGBTexture
    \/ AddDrawMaterial
    \/ Transform
    \/ Color
    \/ Texture
    \/ UVScale
    \/ ShaderMaterial

Spec == Init /\ [][Next]_vars

\* SpecTextures: the texture registry alone, every kind of image.
LoadTexture ==
    /\ \E image \in Images, tag \in LoadTags :
           /\ Len(glTextures) < MaxLoads
           /\ CreateGLTexture(image, tag)
    /\ UNCHANGED sceneVars

Bind ==
    /\ BindGLTextures
    /\ UNCHANGED sceneVars

LookupTextureID ==
    /\ \E tag \in QueryTags : CallFindTextureID(tag)
    /\ UNCHANGED sceneVars

LookupTextureSlot ==
    /\ \E tag \in QueryTags : CallFindTextureSlot(tag)
    /\ UNCHANGED sceneVars

NextTextures ==
    \/ LoadTexture
    \/ Bind
    \/ LookupTextureID
    \/ LookupTextureSlot

SpecTextures == Init /\ [][NextTextures]_vars

\* SpecCapacity: loads under pairwise different tags until the array is
\* full and one more; the run is stopped there.
LoadNextTag ==
    /\ m_loadedTextures <= MaxTextureSlots
    /\ CreateGLTexture(RGBImage, TagNames[m_loadedTextures + 1])
    /\ UNCHANGED sceneVars

LookupLoadedSlot ==
    /\ \E k \in 1..Len(loaded) : CallFindTextureSlot(loaded[k].tag)
    /\ UNCHANGED sceneVars

NextCapacity ==
    \/ LoadNextTag
    \/ Bind
    \/ LookupLoadedSlot

SpecCapacity == Init /\ [][NextCapacity]_vars

\* SpecMaterials: the material registry and the one shader call that reads it.
AddMaterial ==
    /\ \E material \in MaterialInputs :
           /\ Len(m_objectMaterials) < MaxMaterials
           /\ DefineMaterial(material)
    /\ UNCHANGED sceneVars

\* DefineObjectMaterials is called once, by PrepareScene.
DefineAll ==
    /\ ~\E i \in 1..Len(m_objectMaterials) : m_objectMaterials[i] = shelfMaterial
    /\ DefineObjectMaterials
    /\ UNCHANGED sceneVars

LookupMaterial ==
    /\ \E tag \in MaterialTags, material \in UninitMaterials :
           CallFindMaterial(tag, material)
    /\ UNCHANGED sceneVars

NextMaterials ==
    \/ AddMaterial
    \/ DefineAll
    \/ LookupMaterial
    \/ ShaderMaterial

SpecMaterials == Init /\ [][NextMaterials]_vars

-----------------------------------------------------------------------------
(* Properties *)

\* Whether some registered entry carries the tag, and the index of the
\* first that does.
Registered(tag) == \E i \in 0..(m_loadedTextures - 1) : TextureAt(i).tag = tag
FirstSlot(tag) ==
    CHOOSE i \in 0..(m_loadedTextures - 1) :
        /\ TextureAt(i).tag = tag
        /\ \A j \in 0..(i - 1) : TextureAt(j).tag # tag

\* C1: after N loads that returned true, FindTextureSlot of the k-th loaded
\* tag (0-based) is k, and BindGLTextures binds exactly N units, unit i to
\* the handle of the i-th load.
SlotStability ==
    ~crashed =>
        /\ \A k \in 1..Len(loaded) : FindTextureSlot(loaded[k].tag) = k - 1
        /\ last.op = "BindGLTextures" =>
              /\ Len(last.ret) = Len(loaded)
              /\ \A i \in 1..Len(loaded) :
                    /\ last.ret[i] = loaded[i].ID
                    /\ texUnit[i - 1] = loaded[i].ID

\* C2: a CreateGLTexture call whose image is not decoded, or is decoded with
\* a channel count other than 3 or 4, returns false and leaves the entry
\* count and every entry of the registry as they were.
FailedLoadKeepsRegistry ==
    [][(/\ last'.op = "CreateGLTexture"
        /\ ~(last'.arg.image.decoded /\ last'.arg.image.colorChannels \in {3, 4}))
       => /\ last'.ret = FALSE
          /\ m_loadedTextures' = m_loadedTextures
          /\ m_textureIDs' = m_textureIDs
          /\ pastEnd' = pastEnd]_vars

\* C2 witness: a decoded image with 1 or 2 channels was just refused by a
\* registry that holds entries.
FailedLoadSeen ==
    /\ last.op = "CreateGLTexture"
    /\ last.arg.image.decoded
    /\ last.arg.image.colorChannels \in {1, 2}
    /\ last.ret = FALSE
    /\ m_loadedTextures >= 1

\* C3: the registry never holds more than 16 entries, and no entry is
\* written at an index of 16 or more.
CappedAtSixteen ==
    /\ m_loadedTextures <= 16
    /\ ub # "out_of_bounds"

\* C8: FindTextureID and FindTextureSlot return the handle and the index of
\* the first entry with the tag, -1 when there is none; every load that
\* returned true has an entry of its own, a repeated tag included.
TextureLookupFirstMatch ==
    /\ m_loadedTextures = Len(loaded)
    /\ \A k \in 1..Len(loaded) : TextureAt(k - 1) = loaded[k]
    /\ last.op = "FindTextureSlot" =>
          last.ret = IF Registered(last.arg) THEN FirstSlot(last.arg) ELSE -1
    /\ last.op = "FindTextureID" =>
          last.ret = IF Registered(last.arg)
                     THEN TextureAt(FirstSlot(last.arg)).ID ELSE -1

\* C8 witness: a slot lookup of a tag that two entries carry.
DuplicateTagLookedUp ==
    /\ last.op = "FindTextureSlot"
    /\ \E i, j \in 0..(m_loadedTextures - 1) :
          /\ i < j
          /\ TextureAt(i).tag = last.arg
          /\ TextureAt(j).tag = last.arg
          /\ TextureAt(i).ID # TextureAt(j).ID
          /\ last.ret = i

\* Whether some entry of the material registry carries the tag, and the
\* first entry that does.
MaterialDefined(tag) ==
    \E i \in 1..Len(m_objectMaterials) : m_objectMaterials[i].tag = tag
FirstMaterial(tag) ==
    m_objectMaterials[CHOOSE i \in 1..Len(m_objectMaterials) :
                          /\ m_objectMaterials[i].tag = tag
                          /\ \A j \in 1..(i - 1) : m_objectMaterials[j].tag # tag]

\* C4: with a shader bound, SetShaderMaterial writes the material uniforms
\* (the first matching entry's values) when the tag is in the registry, and
\* leaves the three uniforms as they were when it is not.
MaterialWrittenOnlyWhenFound ==
    [][(m_pShaderManager # "NULL" /\ last'.op = "SetShaderMaterial")
       => IF MaterialDefined(last'.arg)
          THEN MaterialUniforms(uniforms') =
                   <<FirstMaterial(last'.arg).diffuseColor,
                     FirstMaterial(last'.arg).specularColor,
                     FirstMaterial(last'.arg).shininess>>
          ELSE MaterialUniforms(uniforms') = MaterialUniforms(uniforms)]_vars

\* C5: FindMaterial returns true exactly when an entry with the tag exists:
\* false for an empty registry and for a registry without the tag.
FindMaterialReportsMiss ==
    last.op = "FindMaterial" =>
        (last.ret.ret = TRUE <=> MaterialDefined(last.arg.tag))

\* C6: with a shader bound and a registered tag, SetShaderTexture followed
\* by SetShaderColor leaves bUseTexture false and objectColor the color
\* given; SetShaderColor followed by SetShaderTexture leaves bUseTexture
\* true and objectTexture the index of the first entry with the tag.
LastWriteWins ==
    [][/\ (/\ m_pShaderManager # "NULL"
           /\ last.op = "SetShaderTexture"
           /\ Registered(last.arg)
           /\ last'.op = "SetShaderColor")
          => /\ uniforms'[g_UseTextureName] = 0
             /\ uniforms'[g_ColorValueName] = last'.arg
       /\ (/\ m_pShaderManager # "NULL"
           /\ last.op = "SetShaderColor"
           /\ last'.op = "SetShaderTexture"
           /\ Registered(last'.arg))
          => /\ uniforms'[g_UseTextureName] = 1
             /\ uniforms'[g_TextureValueName] = FirstSlot(last'.arg)]_vars

\* C6 witness: a color was just set after a texture of slot 1 had been
\* selected, and texturing is off with that slot still in objectTexture.
ColorAfterTexture ==
    /\ m_pShaderManager # "NULL"
    /\ last.op = "SetShaderColor"
    /\ uniforms[g_UseTextureName] = 0
    /\ uniforms[g_ColorValueName] = last.arg
    /\ uniforms[g_TextureValueName] = 1
    /\ m_loadedTextures = 2

\* C7: with no shader manager every shader call is a no-op: nothing is
\* written and the null pointer is not used.
NoShaderNoOp ==
    m_pShaderManager = "NULL" =>
        /\ uniforms = UniformsAtStart
        /\ ub # "null_deref"
        /\ ~crashed

\* C9: FindMaterial of a tag the registry holds hands back the diffuse
\* color, specular color and shininess of the first entry with that tag.
MaterialFirstMatch ==
    (last.op = "FindMaterial" /\ MaterialDefined(last.arg.tag)) =>
        /\ last.ret.material.diffuseColor = FirstMaterial(last.arg.tag).diffuseColor
        /\ last.ret.material.specularColor = FirstMaterial(last.arg.tag).specularColor
        /\ last.ret.material.shininess = FirstMaterial(last.arg.tag).shininess

\* C9 witness: two materials with different values under one tag, and a
\* lookup of that tag that returned the first one's.
SecondMaterialShadowed ==
    /\ last.op = "FindMaterial"
    /\ Len(m_objectMaterials) >= 2
    /\ m_objectMaterials[1].tag = last.arg.tag
    /\ m_objectMaterials[2].tag = last.arg.tag
    /\ m_objectMaterials[1].diffuseColor # m_objectMaterials[2].diffuseColor
    /\ m_objectMaterials[1].specularColor # m_objectMaterials[2].specularColor
    /\ m_objectMaterials[1].shininess # m_objectMaterials[2].shininess
    /\ last.ret.material.diffuseColor = m_objectMaterials[1].diffuseColor
    /\ last.ret.material.shininess = m_objectMaterials[1].shininess

\* C10: with a shader bound, SetShaderTexture of a tag the registry does not
\* hold writes bUseTexture = true and objectTexture = -1, changes no other
\* uniform and raises no error.
MissingTextureSentinel ==
    [][(/\ m_pShaderManager # "NULL"
        /\ last'.op = "SetShaderTexture"
        /\ ~Registered(last'.arg))
       => /\ uniforms' = [uniforms EXCEPT ![g_UseTextureName] = 1,
                                          ![g_TextureValueName] = -1]
          /\ ub' = ub
          /\ crashed' = crashed]_vars

\* C10 witness: the sentinel is in objectTexture after a lookup that missed
\* in a registry that holds entries.
SentinelForwarded ==
    /\ m_pShaderManager # "NULL"
    /\ last.op = "SetShaderTexture"
    /\ ~Registered(last.arg)
    /\ m_loadedTextures >= 1
    /\ uniforms[g_UseTextureName] = 1
    /\ uniforms[g_TextureValueName] = -1
    /\ uniforms[g_ColorValueName] # <<0, 0, 0, 0>>

-----------------------------------------------------------------------------
(* The transform composer on its own *)

\* SpecTransform: SetTransformations over integer scales and translations
\* and every combination of quarter turns about the three axes.
TransformScales == {<<1, 1, 1>>, <<2, 3, 4>>}
RightAngles == {0, 90, 180, 270}
TransformPositions == {<<0, 0, 0>>, <<1, 2, 3>>}

Compose ==
    /\ \E scaleXYZ \in TransformScales, positionXYZ \in TransformPositions,
          XrotationDegrees \in RightAngles, YrotationDegrees \in RightAngles,
          ZrotationDegrees \in RightAngles :
           SetTransformations(scaleXYZ, XrotationDegrees, YrotationDegrees,
                              ZrotationDegrees, positionXYZ)
    /\ UNCHANGED sceneVars

NextTransform == Compose

SpecTransform == Init /\ [][NextTransform]_vars

\* What a matrix does to a point (w = 1) and to a direction (w = 0).
MatPoint(M, p) ==
    <<M[1][1] * p[1] + M[1][2] * p[2] + M[1][3] * p[3] + M[1][4],
      M[2][1] * p[1] + M[2][2] * p[2] + M[2][3] * p[3] + M[2][4],
      M[3][1] * p[1] + M[3][2] * p[2] + M[3][3] * p[3] + M[3][4]>>

MatDirection(M, d) ==
    <<M[1][1] * d[1] + M[1][2] * d[2] + M[1][3] * d[3],
      M[2][1] * d[1] + M[2][2] * d[2] + M[2][3] * d[3],
      M[3][1] * d[1] + M[3][2] * d[2] + M[3][3] * d[3]>>

\* Quarter turns of a point, counter-clockwise seen from the tip of the axis
\* (right-handed): about X, Y goes to Z; about Y, Z goes to X; about Z, X
\* goes to Y.
RECURSIVE TurnX(_, _)
TurnX(p, quarters) ==
    IF quarters = 0 THEN p ELSE TurnX(<<p[1], -p[3], p[2]>>, quarters - 1)

RECURSIVE TurnY(_, _)
TurnY(p, quarters) ==
    IF quarters = 0 THEN p ELSE TurnY(<<p[3], p[2], -p[1]>>, quarters - 1)

RECURSIVE TurnZ(_, _)
TurnZ(p, quarters) ==
    IF quarters = 0 THEN p ELSE TurnZ(<<-p[2], p[1], p[3]>>, quarters - 1)

\* The point p scaled, then turned about X, then about Y, then about Z, then
\* moved by the translation: a is the argument tuple of SetTransformations.
ScaledTurnedMoved(a, p) ==
    LET scaled == <<a[1][1] * p[1], a[1][2] * p[2], a[1][3] * p[3]>>
        turned == TurnZ(TurnY(TurnX(scaled, a[2] \div 90), a[3] \div 90), a[4] \div 90)
    IN <<turned[1] + a[5][1], turned[2] + a[5][2], turned[3] + a[5][3]>>

ProbePoints == {<<0, 0, 0>>, <<1, 0, 0>>, <<0, 1, 0>>, <<0, 0, 1>>, <<1, 1, 1>>}

\* C11: after SetTransformations with a shader bound, the model uniform is
\* Translate * RotateZ * RotateY * RotateX * Scale: it is an affine matrix
\* that sends every point to the point obtained by scaling it, turning it
\* about X, then Y, then Z, and then translating it.
ComposeOrder ==
    (last.op = "SetTransformations" /\ m_pShaderManager # "NULL") =>
        /\ uniforms[g_ModelName][4] = <<0, 0, 0, 1>>
        /\ \A p \in ProbePoints :
              MatPoint(uniforms[g_ModelName], p) = ScaledTurnedMoved(last.arg, p)

\* A non-uniform scale, turns about two axes and a translation were composed.
ComposedScaleTurnsMove ==
    /\ last.op = "SetTransformations"
    /\ m_pShaderManager # "NULL"
    /\ last.arg = <<<<2, 3, 4>>, 90, 0, 270, <<1, 2, 3>>>>
    /\ MatPoint(uniforms[g_ModelName], <<0, 1, 0>>) = <<1, 2, 6>>

\* The claim as the specification words it: composed with scale (1,1,1),
\* rotation (90,0,0) and no translation, the model matrix sends the unit
\* vector +Y to the unit vector -Z.
QuarterTurnAboutXSendsYToMinusZ ==
    (/\ last.op = "SetTransformations"
     /\ m_pShaderManager # "NULL"
     /\ last.arg = <<<<1, 1, 1>>, 90, 0, 0, <<0, 0, 0>>>>) =>
        MatDirection(uniforms[g_ModelName], <<0, 1, 0>>) = <<0, 0, -1>>

\* C12: composed with scale (1,1,1), rotation (90,0,0) and no translation,
\* the model matrix written to the shader sends the unit vector +Y to the
\* unit vector +Z (and +Z to -Y): glm::rotate turns counter-clockwise about
\* the axis.
QuarterTurnAboutXSendsYToZ ==
    (/\ last.op = "SetTransformations"
     /\ m_pShaderManager # "NULL"
     /\ last.arg = <<<<1, 1, 1>>, 90, 0, 0, <<0, 0, 0>>>>) =>
        /\ MatDirection(uniforms[g_ModelName], <<0, 1, 0>>) = <<0, 0, 1>>
        /\ MatDirection(uniforms[g_ModelName], <<0, 0, 1>>) = <<0, -1, 0>>

\* The quarter turn about X alone has been composed and written.
QuarterTurnAboutXComposed ==
    /\ last.op = "SetTransformations"
    /\ m_pShaderManager # "NULL"
    /\ last.arg = <<<<1, 1, 1>>, 90, 0, 0, <<0, 0, 0>>>>
    /\ uniforms[g_ModelName] # UniformsAtStart[g_ModelName]

-----------------------------------------------------------------------------
(* Scene builder: the calls each routine makes, in the order it makes them *)

\* The lengths of the scene are fixed-point numbers in thousandths: Unit is
\* 1.0f, and Times is the product of two floats.
Unit == TrigScale
Times(a, b) == (a * b) \div Unit

Call(op, arg) == [op |-> op, arg |-> arg]

\* A box drawn with the transform of whatever was drawn before it.
ShelfBoxUntransformed(scaleXYZ, positionXYZ) ==
    <<Call("SetShaderTexture", "shelf"),
      Call("SetShaderMaterial", "shelf"),
      Call("DrawBoxMesh", "")>>
\* One box of the shelf: transform, texture, material, draw.
ShelfBox(scaleXYZ, positionXYZ) ==
    <<Call("SetTransformations", <<scaleXYZ, 0, 0, 0, positionXYZ>>),
      Call("SetShaderTexture", "shelf"),
      Call("SetShaderMaterial", "shelf"),
      Call("DrawBoxMesh", "")>>

CreateShelf ==
    ShelfBox(<<10000, 1000, 2000>>, <<0, 500, 3000>>)
    \o ShelfBox(<<10000, 2000, 2000>>, <<0, 1000, 1000>>)
    \o ShelfBox(<<10000, 3000, 2000>>, <<0, 1500, -1000>>)
    \o ShelfBox(<<300, 1300, 2200>>, <<5000, 650, 3000>>)
    \o ShelfBox(<<300, 1300, 2200>>, <<-5000, 650, 3000>>)
    \o ShelfBox(<<300, 2300, 2200>>, <<5000, 1150, 1000>>)
    \o ShelfBox(<<300, 2300, 2200>>, <<-5000, 1150, 1000>>)
    \o ShelfBox(<<300, 3300, 2200>>, <<5000, 1650, -1000>>)
    \o ShelfBox(<<300, 3300, 2200>>, <<-5000, 1650, -1000>>)

\* A bottle whose sauce cylinder has one size whatever the scale factor.
CreateBottle1FixedSize(hs1x, hs1y, hs1z, hs1, tex) ==
    <<Call("SetTransformations",
           <<<<700, 2800, 700>>, 0, 0, 0,
             <<0 + hs1x, Times(hs1, 200 + hs1y), 0 + hs1z>>>>),
      Call("SetTextureUVScale", <<50, 50>>),
      Call("SetShaderTexture", tex),
      Call("DrawCylinderMesh", "")>>
CreateBottle1(hs1x, hs1y, hs1z, hs1, tex) ==
    <<\* sauce
      Call("SetTransformations",
           <<<<Times(hs1, 700), Times(hs1, 2800), Times(hs1, 700)>>, 0, 0, 0,
             <<0 + hs1x, Times(hs1, 200 + hs1y), 0 + hs1z>>>>),
      Call("SetTextureUVScale", <<50, 50>>),
      Call("SetShaderTexture", tex),
      Call("DrawCylinderMesh", ""),
      \* base
      Call("SetTransformations",
           <<<<Times(hs1, 800), Times(hs1, 3000), Times(hs1, 800)>>, 0, 0, 0,
             <<0 + hs1x, Times(hs1, 0 + hs1y), 0 + hs1z>>>>),
      Call("SetShaderColor", <<7, 7, 8, 3>>),
      Call("SetShaderMaterial", "glass"),
      Call("DrawCylinderMesh", ""),
      \* neck
      Call("SetTransformations",
           <<<<Times(hs1, 800), Times(hs1, 1000), Times(hs1, 800)>>, 0, 0, 0,
             <<0 + hs1x, Times(hs1, 3000 + hs1y), 0 + hs1z>>>>),
      Call("SetShaderColor", <<7, 7, 8, 3>>),
      Call("SetShaderMaterial", "glass"),
      Call("DrawTaperedCylinderMesh", ""),
      \* lid
      Call("SetTransformations",
           <<<<Times(hs1, 500), Times(hs1, 700), Times(hs1, 500)>>, 0, 0, 0,
             <<0 + hs1x, Times(hs1, 4800 + hs1y), 0 + hs1z>>>>),
      Call("SetTextureUVScale", <<1, 1>>),
      Call("SetShaderTexture", "lid"),
      Call("SetShaderMaterial", "plastic"),
      Call("DrawCylinderMesh", ""),
      \* neck
      Call("SetTransformations",
           <<<<Times(hs1, 400), Times(hs1, 1000), Times(hs1, 400)>>, 0, 0, 0,
             <<0 + hs1x, Times(hs1, 4000 + hs1y), 0 + hs1z>>>>),
      Call("SetShaderColor", <<7, 7, 8, 3>>),
      Call("SetShaderMaterial", "glass"),
      Call("DrawCylinderMesh", "")>>

\* CreateBottle1, then the ring
CreateBottle2(hs2x, hs2y, hs2z, hs2, tex) ==
    CreateBottle1(hs2x, hs2y, hs2z, hs2, tex)
    \o <<Call("SetTransformations",
              <<<<Times(hs2, 600), Times(hs2, 400), Times(hs2, 600)>>, -67, 0, 13,
                <<hs2x + 0, Times(hs2, hs2y + 4200), hs2z + 0>>>>),
         Call("SetShaderTexture", "lid"),
         Call("SetShaderMaterial", "plastic"),
         Call("DrawTorusMesh", "")>>

CreateBottle3(hs3x, hs3y, hs3z, hs3, tex) ==
    <<\* sauce
      Call("SetTransformations",
           <<<<Times(hs3, 1000), Times(hs3, 2800), Times(hs3, 1000)>>, 0, 0, 0,
             <<0 + hs3x, Times(hs3, 200 + hs3y), 0 + hs3z>>>>),
      Call("SetTextureUVScale", <<50, 50>>),
      Call("SetShaderTexture", tex),
      Call("DrawCylinderMesh", ""),
      \* base
      Call("SetTransformations",
           <<<<Times(hs3, 1100), Times(hs3, 3000), Times(hs3, 1100)>>, 0, 0, 0,
             <<0 + hs3x, Times(hs3, 0 + hs3y), 0 + hs3z>>>>),
      Call("SetShaderColor", <<7, 7, 8, 3>>),
      Call("SetShaderMaterial", "glass"),
      Call("DrawCylinderMesh", ""),
      \* neck, three tapered cylinders
      Call("SetTransformations",
           <<<<Times(hs3, 1000), Times(hs3, 1000), Times(hs3, 1000)>>, 0, 0, 0,
             <<0 + hs3x, Times(hs3, 3000 + hs3y), 0 + hs3z>>>>),
      Call("SetShaderTexture", "redplastic"),
      Call("SetShaderMaterial", "plastic"),
      Call("DrawTaperedCylinderMesh", ""),
      Call("SetTransformations",
           <<<<Times(hs3, 400), Times(hs3, 1300), Times(hs3, 400)>>, 0, 0, 0,
             <<0 + hs3x, Times(hs3, 4000 + hs3y), 0 + hs3z>>>>),
      Call("SetShaderTexture", "redplastic"),
      Call("SetShaderMaterial", "plastic"),
      Call("DrawTaperedCylinderMesh", ""),
      Call("SetTransformations",
           <<<<Times(hs3, 100), Times(hs3, 100), Times(hs3, 100)>>, 0, 0, 0,
             <<0 + hs3x, Times(hs3, 5330 + hs3y), 0 + hs3z>>>>),
      Call("SetShaderTexture", "redplastic"),
      Call("SetShaderMaterial", "plastic"),
      Call("DrawTaperedCylinderMesh", "")>>

RenderScene ==
    <<\* table
      Call("SetTransformations", <<<<20000, 1000, 10000>>, 0, 0, 0, <<0, 0, 0>>>>),
      Call("SetShaderTexture", "wood"),
      Call("SetShaderMaterial", "wood"),
      Call("DrawPlaneMesh", ""),
      \* wall
      Call("SetTransformations", <<<<20000, 1000, 10000>>, 90, 0, 0, <<0, 10000, -5000>>>>),
      Call("SetShaderTexture", "wall"),
      Call("SetShaderMaterial", "wall"),
      Call("DrawPlaneMesh", "")>>
    \o CreateShelf
    \* top shelf
    \o CreateBottle1(-4000, 10000, -1000, 300, "sauce4")
    \o CreateBottle1(-2800, 5000, -1000, 600, "sauce1")
    \o CreateBottle1(-1500, 5000, -1000, 600, "sauce4")
    \o CreateBottle1(3000, 5000, -1000, 600, "sauce4")
    \* middle shelf
    \o CreateBottle1(-4000, 6700, 1000, 300, "sauce4")
    \o CreateBottle1(-3000, 6700, 1000, 300, "sauce2")
    \o CreateBottle2(2000, 4900, 1000, 400, "sauce4")
    \o CreateBottle3(3200, 4900, 1000, 400, "sauce2")
    \o CreateBottle1(4100, 3350, 1000, 600, "sauce1")
    \* bottom shelf
    \o CreateBottle1(-4000, 3400, 3000, 300, "sauce1")
    \o CreateBottle1(-3000, 3400, 3000, 300, "sauce2")
    \o CreateBottle1(-2000, 3400, 3000, 300, "sauce3")
    \o CreateBottle1(-1000, 3400, 3000, 300, "sauce1")
    \o CreateBottle1(2500, 3400, 3000, 300, "sauce4")
    \o CreateBottle1(3500, 3400, 3000, 300, "sauce2")
    \o CreateBottle1(4500, 3400, 3000, 300, "sauce1")
    \* table
    \o CreateBottle1(6300, 0, 3900, 800, "sauce1")

\* The nine loads, the last of them registered under the name of the
\* material instead of the texture tag the builders ask for.
LoadSceneTexturesOtherTag ==
    <<Call("CreateGLTexture", <<"textures/wood.jpg", "wood">>),
      Call("CreateGLTexture", <<"textures/sauce1.jpg", "sauce1">>),
      Call("CreateGLTexture", <<"textures/sauce2.jpg", "sauce2">>),
      Call("CreateGLTexture", <<"textures/sauce3.jpg", "sauce3">>),
      Call("CreateGLTexture", <<"textures/sauce4.jpg", "sauce4">>),
      Call("CreateGLTexture", <<"textures/lid.jpg", "lid">>),
      Call("CreateGLTexture", <<"textures/wall.jpg", "wall">>),
      Call("CreateGLTexture", <<"textures/shelfwood.jpg", "shelf">>),
      Call("CreateGLTexture", <<"textures/redplastic.jpg", "plastic">>),
      Call("BindGLTextures", "")>>
LoadSceneTextures ==
    <<Call("CreateGLTexture", <<"textures/wood.jpg", "wood">>),
      Call("CreateGLTexture", <<"textures/sauce1.jpg", "sauce1">>),
      Call("CreateGLTexture", <<"textures/sauce2.jpg", "sauce2">>),
      Call("CreateGLTexture", <<"textures/sauce3.jpg", "sauce3">>),
      Call("CreateGLTexture", <<"textures/sauce4.jpg", "sauce4">>),
      Call("CreateGLTexture", <<"textures/lid.jpg", "lid">>),
      Call("CreateGLTexture", <<"textures/wall.jpg", "wall">>),
      Call("CreateGLTexture", <<"textures/shelfwood.jpg", "shelf">>),
      Call("CreateGLTexture", <<"textures/redplastic.jpg", "redplastic">>),
      Call("BindGLTextures", "")>>

PrepareScene ==
    LoadSceneTextures
    \o <<Call("DefineObjectMaterials", ""),
         Call("SetupSceneLights", ""),
         Call("LoadPlaneMesh", ""),
         Call("LoadBoxMesh", ""),
         Call("LoadCylinderMesh", ""),
         Call("LoadTaperedCylinderMesh", ""),
         Call("LoadTorusMesh", "")>>

\* The uniforms SetupSceneLights writes (vectors times 100).
SceneLights ==
    (g_UseLightingName :> 1)
    @@ ("directionalLight.direction" :> <<-5, -30, -10>>)
    @@ ("directionalLight.ambient" :> <<7, 5, 5>>)
    @@ ("directionalLight.diffuse" :> <<80, 60, 60>>)
    @@ ("directionalLight.specular" :> <<100, 80, 80>>)
    @@ ("directionalLight.bActive" :> 1)
    @@ ("pointLights[0].position" :> <<300, 200, 200>>)
    @@ ("pointLights[0].ambient" :> <<10, 10, 10>>)
    @@ ("pointLights[0].diffuse" :> <<15, 15, 15>>)
    @@ ("pointLights[0].specular" :> <<35, 35, 35>>)
    @@ ("pointLights[0].bActive" :> 1)
    @@ ("pointLights[1].position" :> <<-300, 200, 200>>)
    @@ ("pointLights[1].ambient" :> <<10, 10, 10>>)
    @@ ("pointLights[1].diffuse" :> <<15, 15, 15>>)
    @@ ("pointLights[1].specular" :> <<35, 35, 35>>)
    @@ ("pointLights[1].bActive" :> 1)
    @@ ("pointLights[2].position" :> <<0, 200, 200>>)
    @@ ("pointLights[2].ambient" :> <<20, 20, 20>>)
    @@ ("pointLights[2].diffuse" :> <<50, 50, 50>>)
    @@ ("pointLights[2].specular" :> <<90, 90, 90>>)
    @@ ("pointLights[2].bActive" :> 1)

\* m_pShaderManager is used with no test against NULL, as in SetShaderMaterial.
SetupSceneLights ==
    /\ ~crashed
    /\ IF m_pShaderManager # "NULL"
       THEN /\ uniforms' = SceneLights @@ uniforms
            /\ UNCHANGED <<ub, crashed>>
       ELSE /\ ub' = IF ub = "none" THEN "null_deref" ELSE ub
            /\ crashed' \in BOOLEAN
            /\ UNCHANGED uniforms
    /\ last' = IF crashed' THEN last
               ELSE [op |-> "SetupSceneLights", arg |-> "", ret |-> ""]
    /\ UNCHANGED <<m_pShaderManager, texVars, m_objectMaterials, glVars>>

\* m_basicMeshes->Load...Mesh() and m_basicMeshes->Draw...Mesh(): calls into
\* the mesh library, which changes nothing the scene manager holds.
MeshLoads == {"LoadPlaneMesh", "LoadBoxMesh", "LoadCylinderMesh",
              "LoadTaperedCylinderMesh", "LoadTorusMesh"}
MeshDraws == {"DrawPlaneMesh", "DrawBoxMesh", "DrawCylinderMesh",
              "DrawTaperedCylinderMesh", "DrawTorusMesh"}

BasicMeshes(call) ==
    /\ ~crashed
    /\ last' = [op |-> call, arg |-> "", ret |-> ""]
    /\ UNCHANGED <<m_pShaderManager, texVars, m_objectMaterials, glVars,
                   uniforms, ub, crashed>>

-----------------------------------------------------------------------------
(* Scene routines, one call per step *)

Builders == {"CreateBottle1", "CreateBottle2", "CreateBottle3"}

\* The calls of a routine in progress, and the one it is at.
Calls(r) ==
    CASE r.name = "PrepareScene" -> PrepareScene
      [] r.name = "RenderScene" -> RenderScene
      [] r.name = "CreateBottle1" -> CreateBottle1(r.arg[1], r.arg[2], r.arg[3], r.arg[4], r.arg[5])
      [] r.name = "CreateBottle2" -> CreateBottle2(r.arg[1], r.arg[2], r.arg[3], r.arg[4], r.arg[5])
      [] r.name = "CreateBottle3" -> CreateBottle3(r.arg[1], r.arg[2], r.arg[3], r.arg[4], r.arg[5])

CurrentCall == Calls(routine)[routine.pc]

At(ops) == routine.name # "" /\ CurrentCall.op \in ops

\* A routine is entered: its first call is next, no draw of it is recorded.
Enter(name, arg) ==
    /\ ~crashed
    /\ routine.name = ""
    /\ routine' = [name |-> name, arg |-> arg, pc |-> 1]
    /\ pending' = NothingPending
    /\ drawn' = <<>>
    /\ last' = [op |-> name, arg |-> arg, ret |-> ""]
    /\ UNCHANGED <<m_pShaderManager, texVars, m_objectMaterials, glVars,
                   uniforms, ub, crashed, built>>

\* The call is over: on to the next one, or back to the caller after the
\* last. draws are the draws recorded so far.
Advance(draws) ==
    LET returns == routine.pc = Len(Calls(routine))
    IN /\ routine' = IF crashed' THEN routine
                     ELSE IF returns THEN NoRoutine
                     ELSE [routine EXCEPT !.pc = @ + 1]
       /\ built' = IF ~crashed' /\ returns /\ routine.name \in Builders
                   THEN Append(built, [name |-> routine.name, arg |-> routine.arg,
                                       parts |-> draws])
                   ELSE built

\* What a draw is issued with: the calls made for it since the previous
\* draw, and the uniforms the shader reads.
DrawRecord(mesh) ==
    [mesh |-> mesh,
     transforms |-> pending.transforms,
     uvscales |-> pending.uvscales,
     shading |-> pending.shading,
     materials |-> pending.materials,
     bUseTexture |-> uniforms[g_UseTextureName],
     objectTexture |-> uniforms[g_TextureValueName],
     UVscale |-> uniforms["UVscale"]]

StepSetTransformations ==
    /\ At({"SetTransformations"})
    /\ LET a == CurrentCall.arg IN SetTransformations(a[1], a[2], a[3], a[4], a[5])
    /\ pending' = [pending EXCEPT !.transforms = Append(@, CurrentCall.arg)]
    /\ drawn' = drawn
    /\ Advance(drawn)

StepSetTextureUVScale ==
    /\ At({"SetTextureUVScale"})
    /\ SetTextureUVScale(CurrentCall.arg[1], CurrentCall.arg[2])
    /\ pending' = [pending EXCEPT !.uvscales = Append(@, CurrentCall.arg)]
    /\ drawn' = drawn
    /\ Advance(drawn)

StepSetShaderTexture ==
    /\ At({"SetShaderTexture"})
    /\ SetShaderTexture(CurrentCall.arg)
    /\ pending' = [pending EXCEPT !.shading = @ + 1]
    /\ drawn' = drawn
    /\ Advance(drawn)

StepSetShaderColor ==
    /\ At({"SetShaderColor"})
    /\ LET c == CurrentCall.arg IN SetShaderColor(c[1], c[2], c[3], c[4])
    /\ pending' = [pending EXCEPT !.shading = @ + 1]
    /\ drawn' = drawn
    /\ Advance(drawn)

StepSetShaderMaterial ==
    /\ At({"SetShaderMaterial"})
    /\ SetShaderMaterial(CurrentCall.arg)
    /\ pending' = IF crashed' THEN pending ELSE [pending EXCEPT !.materials = @ + 1]
    /\ drawn' = drawn
    /\ Advance(drawn)

StepDraw ==
    /\ At(MeshDraws)
    /\ BasicMeshes(CurrentCall.op)
    /\ drawn' = Append(drawn, DrawRecord(CurrentCall.op))
    /\ pending' = NothingPending
    /\ Advance(Append(drawn, DrawRecord(CurrentCall.op)))

\* What the image files of the scene may decode to, and how many of the
\* nine loads of one preparation are let fail.
SceneImages == {RGBImage, NoImage}
MaxFailedLoads == 1

\* The loads of LoadSceneTextures that returned false so far.
FailedLoads == (routine.pc - 1) - Len(loaded)

StepCreateGLTexture ==
    /\ At({"CreateGLTexture"})
    /\ \E image \in SceneImages :
           /\ image = NoImage => FailedLoads < MaxFailedLoads
           /\ CreateGLTexture(image, CurrentCall.arg[2])
    /\ UNCHANGED <<pending, drawn>>
    /\ Advance(drawn)

StepBindGLTextures ==
    /\ At({"BindGLTextures"})
    /\ BindGLTextures
    /\ UNCHANGED <<pending, drawn>>
    /\ Advance(drawn)

StepDefineObjectMaterials ==
    /\ At({"DefineObjectMaterials"})
    /\ DefineObjectMaterials
    /\ UNCHANGED <<pending, drawn>>
    /\ Advance(drawn)

StepSetupSceneLights ==
    /\ At({"SetupSceneLights"})
    /\ SetupSceneLights
    /\ UNCHANGED <<pending, drawn>>
    /\ Advance(drawn)

StepLoadMesh ==
    /\ At(MeshLoads)
    /\ BasicMeshes(CurrentCall.op)
    /\ UNCHANGED <<pending, drawn>>
    /\ Advance(drawn)

\* SpecBuilders: the bottle builders called on their own, a few times in a
\* row, at two sizes of which one is twice the other.
MaxBuilds == 2
BuilderOffsets == {<<0, 0, 0>>, <<2000, 4900, 1000>>}
BuilderScales == {400, 800}

CallBuilder ==
    \E name \in Builders, offset \in BuilderOffsets, hs \in BuilderScales :
        /\ Len(built) < MaxBuilds
        /\ Enter(name, <<offset[1], offset[2], offset[3], hs, "sauce1">>)

NextBuilders ==
    \/ CallBuilder
    \/ StepSetTransformations
    \/ StepSetTextureUVScale
    \/ StepSetShaderTexture
    \/ StepSetShaderColor
    \/ StepSetShaderMaterial
    \/ StepDraw

SpecBuilders == Init /\ [][NextBuilders]_vars

\* SpecScene: the life of the scene as its owner drives it: PrepareScene
\* once, then RenderScene frame after frame.
CallPrepareScene ==
    /\ last.op = "SceneManager"
    /\ Enter("PrepareScene", <<>>)

CallRenderScene ==
    /\ last.op # "SceneManager"
    /\ Enter("RenderScene", <<>>)

NextScene ==
    \/ CallPrepareScene
    \/ StepCreateGLTexture
    \/ StepBindGLTextures
    \/ StepDefineObjectMaterials
    \/ StepSetupSceneLights
    \/ StepLoadMesh
    \/ CallRenderScene
    \/ StepSetTransformations
    \/ StepSetTextureUVScale
    \/ StepSetShaderTexture
    \/ StepSetShaderColor
    \/ StepSetShaderMaterial
    \/ StepDraw

SpecScene == Init /\ [][NextScene]_vars

-----------------------------------------------------------------------------
(* Properties of the scene builder *)

\* The scale and the position a drawn primitive was given: the arguments of
\* the SetTransformations call made for it.
PartScale(part) == part.transforms[Len(part.transforms)][1]
PartPosition(part) == part.transforms[Len(part.transforms)][5]

Twice(v) == <<2 * v[1], 2 * v[2], 2 * v[3]>>

\* Two finished builds by the same builder with the same offsets and tag, the
\* second at twice the scale factor of the first.
SameButTwiceTheScale(small, large) ==
    /\ small.name = large.name
    /\ large.arg = [small.arg EXCEPT ![4] = 2 * small.arg[4]]

\* The claim as the specification words it: built with 2s instead of s, every
\* primitive's scale vector and position vector are twice those of the s
\* build.
ScaleAndPositionDouble ==
    \A i \in 1..Len(built), j \in 1..Len(built) :
        SameButTwiceTheScale(built[i], built[j]) =>
            \A k \in 1..Len(built[i].parts) :
                /\ PartScale(built[j].parts[k]) = Twice(PartScale(built[i].parts[k]))
                /\ PartPosition(built[j].parts[k]) = Twice(PartPosition(built[i].parts[k]))

\* C13: built with 2s instead of s (same offsets, same tag), CreateBottle1,
\* CreateBottle2 and CreateBottle3 draw the same number of primitives; every
\* primitive's scale vector is twice that of the s build, the height (y) of
\* its position is twice that of the s build, and the x and z of its position
\* are the builder's x and z offsets in both builds, not scaled.
ScaleAndHeightDouble ==
    \A i \in 1..Len(built), j \in 1..Len(built) :
        SameButTwiceTheScale(built[i], built[j]) =>
            /\ Len(built[j].parts) = Len(built[i].parts)
            /\ \A k \in 1..Len(built[i].parts) :
                  LET small == built[i].parts[k]
                      large == built[j].parts[k]
                  IN /\ PartScale(large) = Twice(PartScale(small))
                     /\ PartPosition(large)[2] = 2 * PartPosition(small)[2]
                     /\ PartPosition(large)[1] = built[i].arg[1]
                     /\ PartPosition(small)[1] = built[i].arg[1]
                     /\ PartPosition(large)[3] = built[i].arg[3]
                     /\ PartPosition(small)[3] = built[i].arg[3]

\* A bottle with the ring was built away from the origin at one size and
\* then at twice that size.
BuiltAtTwoSizes ==
    /\ Len(built) = 2
    /\ built[1].name = "CreateBottle2"
    /\ built[1].arg = <<2000, 4900, 1000, 400, "sauce1">>
    /\ SameButTwiceTheScale(built[1], built[2])
    /\ Len(built[2].parts) = 6

-----------------------------------------------------------------------------
(* Teardown of the texture registry *)

\* SpecTeardown: loads of every kind of image, binding, and teardown.
Teardown ==
    /\ Len(glTextures) <= MaxLoads
    /\ DestroyGLTextures
    /\ UNCHANGED sceneVars

NextTeardown ==
    \/ LoadTexture
    \/ Bind
    \/ Teardown

SpecTeardown == Init /\ [][NextTeardown]_vars

\* A texture name is released by glDeleteTextures, which marks the object
\* deleted; the methods modelled here hold no such call.
Released(handle) == glTextures[handle] = "deleted"

\* C14: after DestroyGLTextures, every GPU texture handle a successful load
\* allocated is released, and the teardown has allocated no new handle
\* (last.arg is the number of handles GL had given out when it was called).
TeardownReleasesEveryHandle ==
    last.op = "DestroyGLTextures" =>
        /\ \A k \in 1..Len(loaded) : Released(loaded[k].ID)
        /\ Len(glTextures) = last.arg

\* Every CreateGLTexture call of LoadSceneTextures has returned true.
EverySceneLoadSucceeded ==
    Len(loaded) = Cardinality({k \in 1..Len(LoadSceneTextures) :
                                  LoadSceneTextures[k].op = "CreateGLTexture"})

\* C15: when every load of LoadSceneTextures succeeded, every texture tag
\* RenderScene (CreateShelf and the bottle builders included) is about to
\* pass to SetShaderTexture is registered, every material tag it is about to
\* pass to SetShaderMaterial is defined, and no draw of the frame was issued
\* with texturing on and the sentinel slot -1.
SceneTagsRegistered ==
    (routine.name = "RenderScene" /\ EverySceneLoadSucceeded) =>
        /\ At({"SetShaderTexture"}) => Registered(CurrentCall.arg)
        /\ At({"SetShaderMaterial"}) => MaterialDefined(CurrentCall.arg)
        /\ \A k \in 1..Len(drawn) :
              drawn[k].bUseTexture = 1 => drawn[k].objectTexture # -1

\* The frame has got past the nozzle of CreateBottle3, drawn with the
\* texture loaded last, and is about to ask for the next material.
RedPlasticDrawn ==
    /\ routine.name = "RenderScene"
    /\ EverySceneLoadSucceeded
    /\ m_pShaderManager # "NULL"
    /\ At({"SetShaderMaterial"})
    /\ \E k \in 1..Len(drawn) :
          /\ drawn[k].mesh = "DrawTaperedCylinderMesh"
          /\ drawn[k].bUseTexture = 1
          /\ drawn[k].objectTexture = 8

-----------------------------------------------------------------------------
(* The three lookups *)

\* SpecLookups: FindTextureID, FindTextureSlot and FindMaterial called from
\* outside, between loads, material definitions and shader-state writes.
NextLookups ==
    \/ LoadRGBTexture
    \/ AddMaterial
    \/ Color
    \/ LookupTextureID
    \/ LookupTextureSlot
    \/ LookupMaterial

SpecLookups == Init /\ [][NextLookups]_vars

Lookups == {"FindTextureID", "FindTextureSlot", "FindMaterial"}

\* C16: a call of FindTextureID, FindTextureSlot or FindMaterial leaves the
\* texture registry, the GL texture state, the material registry and every
\* shader uniform as they were, and a FindMaterial that matches no entry
\* leaves the caller's output material as it was handed in.
LookupsReadOnly ==
    [][last'.op \in Lookups =>
          /\ UNCHANGED <<texVars, glVars, m_objectMaterials, uniforms>>
          /\ (last'.op = "FindMaterial" /\ ~MaterialDefined(last'.arg.tag)) =>
                 last'.ret.material = last'.arg.material]_vars

\* FindMaterial has missed in a registry that is not empty, with the
\* caller's material holding what was on the stack, after a texture load and
\* a shader write.
LookupMissed ==
    /\ last.op = "FindMaterial"
    /\ Len(m_objectMaterials) > 0
    /\ ~MaterialDefined(last.arg.tag)
    /\ last.arg.material.shininess = -3
    /\ m_loadedTextures > 0
    /\ uniforms[g_ColorValueName] # <<0, 0, 0, 0>>

\* C17: every draw of RenderScene, the shelf and the bottle builders
\* included, is issued after exactly one SetTransformations call and at least
\* one shading-mode write (SetShaderTexture or SetShaderColor) made since the
\* previous draw.
EveryDrawSetsTransformAndShading ==
    \A k \in 1..Len(drawn) :
        /\ Len(drawn[k].transforms) = 1
        /\ drawn[k].shading >= 1

\* The frame has just drawn the ring of CreateBottle2, the one primitive with
\* a rotation about two axes.
RingDrawn ==
    /\ routine.name = "RenderScene"
    /\ last.op = "DrawTorusMesh"
    /\ drawn[Len(drawn)].mesh = "DrawTorusMesh"
    /\ drawn[Len(drawn)].transforms[1][2] = -67
    /\ drawn[Len(drawn)].shading = 1

\* C18: every draw of RenderScene, the shelf and the bottle builders
\* included, is issued after a SetShaderMaterial call made since the previous
\* draw, so that no draw is lit with the material of the draw before it.
EveryDrawSetsMaterial ==
    \A k \in 1..Len(drawn) : drawn[k].materials >= 1

\* The draws SetTextureUVScale(50, 50) was called for: the sauce cylinders.
TiledDraw(draw) ==
    \E n \in 1..Len(draw.uvscales) : draw.uvscales[n] = <<50, 50>>

\* C19: the UV scale (50, 50) set for a sauce cylinder is in effect at that
\* draw only: at every other draw issued with texturing on (table, wall,
\* shelf, lid, ring, red-plastic nozzle) the UVscale uniform is not (50, 50).
TilingStaysOnTheSauce ==
    \A k \in 1..Len(drawn) :
        (drawn[k].bUseTexture = 1 /\ ~TiledDraw(drawn[k])) =>
            drawn[k].UVscale # <<50, 50>>

\* C20: after any sequence of CreateGLTexture calls, the texture handles GL
\* has allocated are exactly the handles the registry entries hold: no
\* handle is allocated and left out of the registry.
NoOrphanTextures ==
    {handle \in 1..Len(glTextures) : TRUE}
        = {TextureAt(i).ID : i \in 0..(m_loadedTextures - 1)}

=============================================================================
